---- MODULE Spec2Model ----
(***************************************************************************)
(* Model of patchLabelBytesIfNeeded (src/gulf.js): the in-place fuzzy      *)
(* replacement of "Gulf of Mexico" by "Gulf of Sweden" in a Uint8Array.    *)
(* Buffer indices are 0-based as in the source; a read outside the array   *)
(* yields Undefined, a write outside the array is ignored (typed array).   *)
(* The function is called twice in a row on the same array, so that the    *)
(* second call shows what a repeated patch does to a patched buffer.       *)
(***************************************************************************)
EXTENDS Integers, Sequences, FiniteSets, TLC

\* ------------------------------------------------------------------ bounds
MaxChunks == 3      \* an input buffer is the concatenation of at most this many chunks
MaxOverrun == 2     \* the offset of the gap skip is followed this far past the end of the buffer

\* --------------------------------------------------------------- constants
Undefined == -1     \* the value of a read outside the array

SEARCH_PATTERN_BYTES == <<71, 117, 108, 102, 32, 111, 102, 32, 77, 101, 120, 105, 99, 111>>
CHAR_CODE_SPACE == 32
CHAR_CODE_CAPITAL_M == 77
CHAR_CODE_PARENTH == 40
CHAR_CODE_CLOSE == 41
REPLACEMENT_BYTES == <<83, 119, 101, 100, 101, 110>>

\* ------------------------------------------------------------------ inputs
Gulf == <<71, 117, 108, 102>>
Of == <<111, 102>>
Mexico == <<77, 101, 120, 105, 99, 111>>
America == <<65, 109, 101, 114, 105, 99, 97>>
Sp == <<32>>

PhrasePlain == Gulf \o Sp \o Of \o Sp \o Mexico                      \* Gulf of Mexico
PhraseBroken == Gulf \o <<40, 97, 41>> \o Of \o Sp \o Mexico         \* Gulf(a)of Mexico

Chunks ==
    { PhrasePlain, PhraseBroken,
      Gulf \o Sp, Of \o Sp, Mexico,
      <<40>>, <<41>>, <<40, 97, 41>> }

ExampleAmerica == PhrasePlain \o Sp \o <<40>> \o Gulf \o Sp \o Of \o Sp \o America \o <<41>>
ExampleControl == Gulf \o <<1, 2>> \o Of \o <<10>> \o Mexico
ExampleAlpha == Gulf \o <<88>> \o Of \o <<88>> \o Mexico
ExampleAt == Gulf \o <<64>> \o Of \o <<91, 96, 123>> \o Mexico

Examples ==
    { ExampleAmerica, ExampleControl, ExampleAlpha, ExampleAt, Gulf, <<71>>,
      Gulf \o Sp \o Sp \o Of \o Sp, <<77>> \o Sp \o PhrasePlain \o Sp }

RECURSIVE Flatten(_)
Flatten(cs) == IF cs = <<>> THEN <<>> ELSE Head(cs) \o Flatten(Tail(cs))

Inputs ==
    { Flatten(cs) : cs \in UNION { [1..n -> Chunks] : n \in 0..MaxChunks } } \cup Examples

\* ------------------------------------------------------------------- state
VARIABLES
    labelBytes,               \* the Uint8Array being patched
    labelByteStartingIndex,   \* outer loop variable (line 106)
    labelByteOffset,          \* line 109
    searchPatternIndex,       \* inner loop variable (line 111)
    foundMatch,               \* line 108
    mexicoStartIndex,         \* line 139
    parenthStartIndex,        \* line 142
    pc,                       \* position in the function
    pass,                     \* 1: first call, 2: second call on the result
    callInput,                \* the array as it was when the current call began
    declared,                 \* matches declared in this call: start index and array at that moment
    maxRead,                  \* highest array index read in this call (-1: none)
    written                   \* array indices written in this call

vars == <<labelBytes, labelByteStartingIndex, labelByteOffset, searchPatternIndex,
          foundMatch, mexicoStartIndex, parenthStartIndex, pc, pass, callInput,
          declared, maxRead, written>>

\* ----------------------------------------------------------------- helpers
Max(a, b) == IF a > b THEN a ELSE b

At(b, k) == IF k >= 0 /\ k < Len(b) THEN b[k + 1] ELSE Undefined

WriteByte(b, k, v) == IF k >= 0 /\ k < Len(b) THEN [b EXCEPT ![k + 1] = v] ELSE b

\* isAlphaChar with the range A-Z left out
isAlphaCharLowerOnly(code) ==
    code # Undefined /\ (code > 96 /\ code < 123)

isAlphaChar(code) ==
    code # Undefined /\ ((code > 64 /\ code < 91) \/ (code > 96 /\ code < 123))

\* indexOf with the fromIndex argument dropped
IndexOfFromZero(b, v, from) ==
    IF \E k \in 1..Len(b) : b[k] = v
    THEN (CHOOSE k \in 1..Len(b) : b[k] = v /\ \A j \in 1..(k - 1) : b[j] # v) - 1
    ELSE -1

\* Uint8Array.prototype.indexOf(v, from): first index >= from holding v, else -1
RECURSIVE IndexOf(_, _, _)
IndexOf(b, v, from) ==
    IF from >= Len(b) THEN -1
    ELSE IF At(b, from) = v THEN from
    ELSE IndexOf(b, v, from + 1)

\* lines 142-148: the loop visits i, i + 1, ... up to the first "(" followed by a letter
\* (or to the end), reads each visited byte and, after a "(", the byte that follows it;
\* the result is the index found (-1: none) and the highest index read
ParenthLoop(b, i, m) ==
    LET found == { k \in i..(Len(b) - 1) : At(b, k) = CHAR_CODE_PARENTH /\ isAlphaChar(At(b, k + 1)) }
        index == IF found = {} THEN -1 ELSE CHOOSE k \in found : \A j \in found : k <= j
        last == IF index = -1 THEN Len(b) - 1 ELSE index
        reads == (i..last) \cup { k + 1 : k \in { j \in i..last : At(b, j) = CHAR_CODE_PARENTH } }
    IN  [index |-> index,
         maxRead |-> IF reads = {} THEN m ELSE Max(m, CHOOSE k \in reads : \A j \in reads : j <= k)]

\* the erase loop with the off-by-one test i <= length
RECURSIVE EraseLoopInclusive(_, _, _)
EraseLoopInclusive(b, i, w) ==
    IF i <= Len(b) /\ At(b, i) # CHAR_CODE_CLOSE
    THEN EraseLoopInclusive(WriteByte(b, i, CHAR_CODE_SPACE), i + 1, w \cup {i})
    ELSE [bytes |-> b, i |-> i, written |-> w]

\* lines 155-158: blank from i up to the closing ")"
RECURSIVE EraseLoop(_, _, _)
EraseLoop(b, i, w) ==
    IF i < Len(b) /\ At(b, i) # CHAR_CODE_CLOSE
    THEN EraseLoop(WriteByte(b, i, CHAR_CODE_SPACE), i + 1, w \cup {i})
    ELSE [bytes |-> b, i |-> i, written |-> w]

\* the erasure without lines 160-163: the closing ")" is kept
EraseParenthKeepClose(b, p) ==
    IF p > -1
    THEN LET r == EraseLoop(b, p, {})
         IN  [bytes |-> r.bytes, written |-> r.written]
    ELSE [bytes |-> b, written |-> {}]

\* lines 151-164
EraseParenth(b, p) ==
    IF p > -1
    THEN LET r == EraseLoop(b, p, {})
         IN  IF r.i < Len(b)
             THEN [bytes |-> WriteByte(r.bytes, r.i, CHAR_CODE_SPACE),
                   written |-> r.written \cup {r.i}]
             ELSE [bytes |-> r.bytes, written |-> r.written]
    ELSE [bytes |-> b, written |-> {}]

\* the replacement written one byte too far to the right
RECURSIVE ReplaceLoopShifted(_, _, _)
ReplaceLoopShifted(b, m, i) ==
    IF i < Len(REPLACEMENT_BYTES)
    THEN ReplaceLoopShifted(WriteByte(b, m + i + 1, REPLACEMENT_BYTES[i + 1]), m, i + 1)
    ELSE b

\* lines 166-168
RECURSIVE ReplaceLoop(_, _, _)
ReplaceLoop(b, m, i) ==
    IF i < Len(REPLACEMENT_BYTES)
    THEN ReplaceLoop(WriteByte(b, m + i, REPLACEMENT_BYTES[i + 1]), m, i + 1)
    ELSE b

ReplaceIndices(m) == { m + i : i \in 0..(Len(REPLACEMENT_BYTES) - 1) }

\* ----------------------------------------------------------------- actions
Init ==
    /\ labelBytes \in Inputs
    /\ labelByteStartingIndex = 0
    /\ labelByteOffset = 0
    /\ searchPatternIndex = 0
    /\ foundMatch = TRUE
    /\ mexicoStartIndex = -1
    /\ parenthStartIndex = -1
    /\ pc = IF 0 < Len(labelBytes) THEN "scan" ELSE "return"
    /\ pass = 1
    /\ callInput = labelBytes
    /\ declared = <<>>
    /\ maxRead = -1
    /\ written = {}

Frame == UNCHANGED <<pass, callInput, declared, written>>

\* `continue` of the inner loop: searchPatternIndex++ and the loop test of line 111
ContinueInner ==
    /\ searchPatternIndex' = searchPatternIndex + 1
    /\ pc' = IF searchPatternIndex + 1 < Len(SEARCH_PATTERN_BYTES) THEN "scan" ELSE "decide"

\* labelByteStartingIndex++ and the loop test of line 106, then lines 108-109
NextStart ==
    /\ labelByteStartingIndex' = labelByteStartingIndex + 1
    /\ labelByteOffset' = 0
    /\ searchPatternIndex' = 0
    /\ foundMatch' = TRUE
    /\ mexicoStartIndex' = -1
    /\ parenthStartIndex' = -1
    /\ pc' = IF labelByteStartingIndex + 1 < Len(labelBytes) THEN "scan" ELSE "return"

\* lines 113-116
ScanBound ==
    /\ pc = "scan"
    /\ labelByteStartingIndex + labelByteOffset >= Len(labelBytes)
    /\ foundMatch' = FALSE
    /\ pc' = "decide"
    /\ UNCHANGED <<labelBytes, labelByteStartingIndex, labelByteOffset, searchPatternIndex,
                   mexicoStartIndex, parenthStartIndex, maxRead>>
    /\ Frame

\* lines 118-122: a separator position holding a non-letter; the do statement is entered
ScanGap ==
    /\ pc = "scan"
    /\ labelByteStartingIndex + labelByteOffset < Len(labelBytes)
    /\ LET labelByte == At(labelBytes, labelByteStartingIndex + labelByteOffset)
           searchByte == SEARCH_PATTERN_BYTES[searchPatternIndex + 1]
       IN  /\ searchByte = CHAR_CODE_SPACE /\ ~isAlphaChar(labelByte)
           /\ pc' = "skip"
           /\ maxRead' = Max(maxRead, labelByteStartingIndex + labelByteOffset)
    /\ UNCHANGED <<labelBytes, labelByteStartingIndex, labelByteOffset, searchPatternIndex,
                   foundMatch, mexicoStartIndex, parenthStartIndex>>
    /\ Frame

\* line 123, the do body. The offset is no longer followed once it is MaxOverrun past
\* the end of the array (in the source the double stops changing at 2^53).
GapBody ==
    /\ pc = "skip"
    /\ labelByteOffset' =
           IF labelByteStartingIndex + labelByteOffset < Len(labelBytes) + MaxOverrun
           THEN labelByteOffset + 1
           ELSE labelByteOffset
    /\ pc' = "gap"
    /\ UNCHANGED <<labelBytes, labelByteStartingIndex, searchPatternIndex, foundMatch,
                   mexicoStartIndex, parenthStartIndex, maxRead>>
    /\ Frame

\* line 124, condition true: the byte after the increment is not a letter; do body again.
\* Past the end of the array every read is undefined, which is not a letter.
GapSkip ==
    /\ pc = "gap"
    /\ ~isAlphaChar(At(labelBytes, labelByteStartingIndex + labelByteOffset))
    /\ pc' = "skip"
    /\ maxRead' = Max(maxRead, labelByteStartingIndex + labelByteOffset)
    /\ UNCHANGED <<labelBytes, labelByteStartingIndex, labelByteOffset, searchPatternIndex,
                   foundMatch, mexicoStartIndex, parenthStartIndex>>
    /\ Frame

\* line 124, condition false, and line 125
GapEnd ==
    /\ pc = "gap"
    /\ isAlphaChar(At(labelBytes, labelByteStartingIndex + labelByteOffset))
    /\ maxRead' = Max(maxRead, labelByteStartingIndex + labelByteOffset)
    /\ ContinueInner
    /\ UNCHANGED <<labelBytes, labelByteStartingIndex, labelByteOffset, foundMatch,
                   mexicoStartIndex, parenthStartIndex>>
    /\ Frame

\* lines 118-121 (no gap) and 128-131
ScanEqual ==
    /\ pc = "scan"
    /\ labelByteStartingIndex + labelByteOffset < Len(labelBytes)
    /\ LET labelByte == At(labelBytes, labelByteStartingIndex + labelByteOffset)
           searchByte == SEARCH_PATTERN_BYTES[searchPatternIndex + 1]
       IN  /\ ~(searchByte = CHAR_CODE_SPACE /\ ~isAlphaChar(labelByte))
           /\ labelByte = searchByte
    /\ labelByteOffset' = labelByteOffset + 1
    /\ maxRead' = Max(maxRead, labelByteStartingIndex + labelByteOffset)
    /\ ContinueInner
    /\ UNCHANGED <<labelBytes, labelByteStartingIndex, foundMatch,
                   mexicoStartIndex, parenthStartIndex>>
    /\ Frame

\* lines 118-121 (no gap), 128 false, 133-134
ScanMismatch ==
    /\ pc = "scan"
    /\ labelByteStartingIndex + labelByteOffset < Len(labelBytes)
    /\ LET labelByte == At(labelBytes, labelByteStartingIndex + labelByteOffset)
           searchByte == SEARCH_PATTERN_BYTES[searchPatternIndex + 1]
       IN  /\ ~(searchByte = CHAR_CODE_SPACE /\ ~isAlphaChar(labelByte))
           /\ labelByte # searchByte
    /\ foundMatch' = FALSE
    /\ pc' = "decide"
    /\ maxRead' = Max(maxRead, labelByteStartingIndex + labelByteOffset)
    /\ UNCHANGED <<labelBytes, labelByteStartingIndex, labelByteOffset, searchPatternIndex,
                   mexicoStartIndex, parenthStartIndex>>
    /\ Frame

\* the parenthetical erased whether or not the candidate matched
NoMatchErasing ==
    /\ pc = "decide"
    /\ ~foundMatch
    /\ LET r == EraseParenth(labelBytes, ParenthLoop(labelBytes, 0, maxRead).index)
       IN  /\ labelBytes' = r.bytes
           /\ written' = written \cup r.written
    /\ NextStart
    /\ UNCHANGED <<maxRead, pass, callInput, declared>>

\* line 137 false, then the next start index
NoMatch ==
    /\ pc = "decide"
    /\ ~foundMatch
    /\ NextStart
    /\ UNCHANGED <<labelBytes, maxRead>>
    /\ Frame

\* line 137 true, lines 139-148: anchor lookup and parenthetical lookup
MatchFound ==
    /\ pc = "decide"
    /\ foundMatch
    /\ LET m == IndexOf(labelBytes, CHAR_CODE_CAPITAL_M, labelByteStartingIndex)
           p == ParenthLoop(labelBytes, 0, maxRead)
       IN  /\ mexicoStartIndex' = m
           /\ parenthStartIndex' = p.index
           /\ maxRead' = IF m = -1 THEN Max(p.maxRead, Len(labelBytes) - 1)
                         ELSE Max(p.maxRead, m)
    /\ declared' = Append(declared, [at |-> labelByteStartingIndex, bytes |-> labelBytes])
    /\ pc' = "erase"
    /\ UNCHANGED <<labelBytes, labelByteStartingIndex, labelByteOffset, searchPatternIndex,
                   foundMatch, pass, callInput, written>>

\* lines 151-164
Erase ==
    /\ pc = "erase"
    /\ LET r == EraseParenth(labelBytes, parenthStartIndex)
       IN  /\ labelBytes' = r.bytes
           /\ written' = written \cup r.written
           /\ maxRead' = IF r.written = {} THEN maxRead
                         ELSE Max(maxRead, CHOOSE k \in r.written : \A j \in r.written : j <= k)
    /\ pc' = "replace"
    /\ UNCHANGED <<labelByteStartingIndex, labelByteOffset, searchPatternIndex, foundMatch,
                   mexicoStartIndex, parenthStartIndex, pass, callInput, declared>>

\* the scan given up after the first patched match
ReplaceThenReturn ==
    /\ pc = "replace"
    /\ labelBytes' = ReplaceLoop(labelBytes, mexicoStartIndex, 0)
    /\ written' = written \cup ReplaceIndices(mexicoStartIndex)
    /\ labelByteStartingIndex' = Len(labelBytes)
    /\ labelByteOffset' = 0
    /\ searchPatternIndex' = 0
    /\ foundMatch' = TRUE
    /\ mexicoStartIndex' = -1
    /\ parenthStartIndex' = -1
    /\ pc' = "return"
    /\ UNCHANGED <<maxRead, pass, callInput, declared>>

\* lines 166-168, then the next start index
Replace ==
    /\ pc = "replace"
    /\ labelBytes' = ReplaceLoop(labelBytes, mexicoStartIndex, 0)
    /\ written' = written \cup ReplaceIndices(mexicoStartIndex)
    /\ NextStart
    /\ UNCHANGED <<maxRead, pass, callInput, declared>>

\* the first call returns; the function is called again on the same array
SecondCall ==
    /\ pc = "return"
    /\ pass = 1
    /\ pass' = 2
    /\ callInput' = labelBytes
    /\ declared' = <<>>
    /\ maxRead' = -1
    /\ written' = {}
    /\ labelByteStartingIndex' = 0
    /\ labelByteOffset' = 0
    /\ searchPatternIndex' = 0
    /\ foundMatch' = TRUE
    /\ mexicoStartIndex' = -1
    /\ parenthStartIndex' = -1
    /\ pc' = IF 0 < Len(labelBytes) THEN "scan" ELSE "return"
    /\ UNCHANGED labelBytes

\* the second call returns
Finish ==
    /\ pc = "return"
    /\ pass = 2
    /\ pc' = "done"
    /\ UNCHANGED <<labelBytes, labelByteStartingIndex, labelByteOffset, searchPatternIndex,
                   foundMatch, mexicoStartIndex, parenthStartIndex, pass, callInput,
                   declared, maxRead, written>>

Next ==
    \/ ScanBound
    \/ ScanGap
    \/ GapBody
    \/ GapSkip
    \/ GapEnd
    \/ ScanEqual
    \/ ScanMismatch
    \/ NoMatch
    \/ MatchFound
    \/ Erase
    \/ Replace
    \/ SecondCall
    \/ Finish

Spec == Init /\ [][Next]_vars

\* the function keeps executing: it is never suspended
FairSpec == Spec /\ WF_vars(Next)

\* ------------------------------------------------- what the claims talk about
Letters == (65..90) \cup (97..122)

\* the bytes of w stand in b from index k on (0-based), inside b
WordAt(b, k, w) == k + Len(w) <= Len(b) /\ \A j \in 1..Len(w) : b[k + j] = w[j]

\* b[lo..hi] (0-based, inclusive) is a non-empty run of non-letters inside b
GapRun(b, lo, hi) == lo <= hi /\ hi < Len(b) /\ \A k \in lo..hi : b[k + 1] \notin Letters

\* the indices just past "Mexico" of a fuzzy "Gulf of Mexico" that starts at index i
FuzzyEnds(b, i) ==
    IF ~WordAt(b, i, Gulf) THEN {}
    ELSE UNION { { i + 12 + g1 + g2 :
                     g2 \in { g \in 1..Len(b) : /\ GapRun(b, i + 6 + g1, i + 5 + g1 + g)
                                                /\ WordAt(b, i + 6 + g1 + g, Mexico) } } :
                 g1 \in { g \in 1..Len(b) : /\ GapRun(b, i + 4, i + 3 + g)
                                            /\ WordAt(b, i + 4 + g, Of) } }

FuzzyAt(b, i) == FuzzyEnds(b, i) # {}

Occurrences(b) == { i \in 0..(Len(b) - 1) : FuzzyAt(b, i) }

\* index of the "M" of the occurrence that starts at i
AnchorOf(b, i) == (CHOOSE e \in FuzzyEnds(b, i) : TRUE) - 6

OccurrenceSpan(b, i) == i..(AnchorOf(b, i) + 5)

ReadsSweden(b, a) == \A j \in 1..Len(REPLACEMENT_BYTES) : At(b, a + j - 1) = REPLACEMENT_BYTES[j]

Opens(b) == { k \in 0..(Len(b) - 2) : b[k + 1] = 40 /\ b[k + 2] \in Letters }

Closes(b, open) == { k \in open..(Len(b) - 1) : b[k + 1] = 41 }

Lowest(S) == CHOOSE k \in S : \A j \in S : k <= j

\* the parenthetical span [open, close] of b, empty when there is none
ErasedSpan(b) ==
    IF Opens(b) = {} THEN {}
    ELSE LET open == Lowest(Opens(b))
         IN  IF Closes(b, open) = {} THEN open..(Len(b) - 1)
             ELSE open..Lowest(Closes(b, open))

\* spans erased, and anchor windows, of the matches declared so far in this call
ErasedInCall == UNION { ErasedSpan(declared[n].bytes) : n \in 1..Len(declared) }

WindowsInCall ==
    UNION { UNION { (e - 6)..(e - 1) : e \in FuzzyEnds(declared[n].bytes, declared[n].at) } :
            n \in 1..Len(declared) }

Blanked(b, S) == [k \in 1..Len(b) |-> IF (k - 1) \in S THEN 32 ELSE b[k]]

Overwritten(b, a) ==
    [k \in 1..Len(b) |-> IF (k - 1) \in a..(a + 5) THEN REPLACEMENT_BYTES[k - a] ELSE b[k]]

Hung == pc = "gap" /\ labelByteStartingIndex + labelByteOffset >= Len(labelBytes)

\* ---------------------------------------------------------------- claims

\* C1: for every buffer the call terminates: the scan over the start indices
\* reaches the end of the buffer, so both calls return.
C1_Terminates == <>(pc = "done")

\* C2: the scan declares a match at start index i exactly when the bytes from i
\* are "Gulf", one or more non-letters, "of", one or more non-letters, "Mexico",
\* all inside the buffer; when the scan never decides, neither its start index
\* nor any later one holds such bytes.
C2_MatchIffFuzzy ==
    /\ pc = "decide" => (foundMatch <=> FuzzyAt(labelBytes, labelByteStartingIndex))
    /\ (pc = "decide" /\ foundMatch) =>
           (labelByteStartingIndex + labelByteOffset) \in FuzzyEnds(labelBytes, labelByteStartingIndex)
    /\ Hung => \A i \in labelByteStartingIndex..(Len(labelBytes) - 1) : ~FuzzyAt(labelBytes, i)

C2_Witness ==
    /\ pc = "decide" /\ foundMatch
    /\ At(labelBytes, labelByteStartingIndex + 4) = 1
    /\ At(labelBytes, labelByteStartingIndex + 5) = 2

\* C3: idempotence: a second call on the result of a call changes nothing.
C3_Idempotent == pc = "done" => labelBytes = callInput

C5_AnchorIsMatchedToken ==
    [][pc = "replace" =>
          LET d == declared[Len(declared)]
          IN  /\ mexicoStartIndex # -1
              /\ FuzzyAt(d.bytes, d.at)
              /\ mexicoStartIndex = AnchorOf(d.bytes, d.at)
              /\ WordAt(d.bytes, mexicoStartIndex, Mexico)
              /\ labelBytes' = Overwritten(labelBytes, mexicoStartIndex)]_vars

C5_Witness ==
    /\ pc = "return"
    /\ Len(declared) > 0
    /\ \E k \in 0..(Len(callInput) - 1) :
           /\ callInput[k + 1] = CHAR_CODE_CAPITAL_M
           /\ labelBytes[k + 1] = CHAR_CODE_CAPITAL_M
           /\ \E i \in Occurrences(callInput) : k < i /\ ReadsSweden(labelBytes, AnchorOf(callInput, i))

\* C6: on a declared match the erasure step blanks exactly the bytes from the
\* lowest "(" followed by a letter through the first ")" at or after it, or
\* through the last byte when there is no such ")", and nothing when there is
\* no such "("; "Gulf of Mexico (Gulf of America)" becomes "Gulf of Sweden"
\* followed by 18 spaces.
C6_ErasesParenthetical ==
    [][/\ pc = "erase" => labelBytes' = Blanked(labelBytes, ErasedSpan(labelBytes))
       /\ (callInput = ExampleAmerica /\ pass = 1 /\ pc' = "return") =>
              labelBytes' = Gulf \o Sp \o Of \o Sp \o REPLACEMENT_BYTES \o [k \in 1..18 |-> 32]]_vars

C6_Witness ==
    /\ pc = "return" /\ pass = 1
    /\ callInput = ExampleAmerica
    /\ labelBytes # callInput

\* C7: when no start index of the input yields a match, the buffer stays
\* byte for byte what it was: nothing is erased and nothing is replaced.
C7_NoMatchNoChange ==
    (labelBytes # callInput \/ written # {} \/ declared # <<>>) => Occurrences(callInput) # {}

C7_Witness ==
    /\ pc = "return"
    /\ Occurrences(callInput) = {}
    /\ Opens(callInput) # {}

\* C8: the buffer keeps its length, every index written by the erasure or the
\* replacement step is inside the buffer, and anchor + 5 is inside the buffer
\* at every declared match.
C8_WritesInBounds ==
    /\ Len(labelBytes) = Len(callInput)
    /\ \A k \in written : 0 <= k /\ k < Len(labelBytes)
    /\ pc \in {"erase", "replace"} =>
           (mexicoStartIndex >= 0 /\ mexicoStartIndex + 5 < Len(labelBytes))

C8_Witness ==
    /\ pc = "replace"
    /\ (Len(labelBytes) - 1) \in written
    /\ Closes(callInput, 0) = {}

\* C9: every index read during a call is below the buffer length.
C9_ReadsInBounds == maxRead < Len(labelBytes)

====
